---- MODULE Spec2Model ----
(***************************************************************************)
(* The coefficient store of HagedornWavepacketBase                         *)
(* (src/src/WaveBlocksND/HagedornWavepacketBase.py): per component a basis *)
(* shape, a cached basis size and a coefficient column vector.             *)
(*                                                                         *)
(* numpy arrays are modelled as sequences of values.  An array the store   *)
(* holds is either an array of its own or a window (numpy view) into the   *)
(* caller's array handed to set_coefficient_vector, so that aliasing       *)
(* between the caller and the store is part of the state.                  *)
(***************************************************************************)
EXTENDS Integers, Sequences, FiniteSets, TLC

(* ------------------------------ bounds -------------------------------- *)

\* largest number of components N of a wavepacket
MaxComponents == 2
\* largest limit of a basis shape along the first axis
MaxLimitX == 2
\* largest limit of a basis shape along the second axis
MaxLimitY == 2
\* coefficient values are 0..MaxVal
MaxVal == 1

Values == 0..MaxVal

(* ------------------- BasisShape (external capability) ------------------ *)
(* A basis shape is the hypercubic set of two-dimensional multi-indices    *)
(* {(x,y) : 0 <= x < a, 0 <= y < b}, written <<a, b>>, with the row-major   *)
(* linear order (x,y) |-> x*b + y.  The same multi-index has different     *)
(* linear indices in different shapes.                                     *)

Shapes == (1..MaxLimitX) \X (1..MaxLimitY)

\* multi-indices a caller may ask for: those of some shape and some of none
MultiIndices == (0..MaxLimitX) \X (0..MaxLimitY)

\* bs.get_basissize()
get_basissize(bs) == bs[1] * bs[2]

\* k in bs
Contains(bs, k) == k[1] < bs[1] /\ k[2] < bs[2]

\* bs[k], the linear index (0-based) of multi-index k
LinearIndex(bs, k) == k[1] * bs[2] + k[2]

\* iteration over bs: the multi-indices in linear order
Iterate(bs) == [n \in 1..get_basissize(bs) |-> <<(n - 1) \div bs[2], (n - 1) % bs[2]>>]

(* ------------------------------ outcomes ------------------------------ *)

Ok == "ok"
\* raise ValueError("Invalid component index ...") / ("There is no component with index ...")
InvalidComponent == "ValueError: invalid component index"
\* raise ValueError("Number of basis shape(s) does not match ...") / ("Too less or too many data provided.")
CountMismatch == "ValueError: count does not match number of components"
\* raise ValueError("There is no basis function with multi-index ...")
NotPresent == "ValueError: no basis function with multi-index"
\* numpy's reshape of an array of another size
ReshapeError == "ValueError: cannot reshape array"
\* an index past the end of a list or an array
IndexError == "IndexError: index out of range"
\* a local variable read before assignment
UnboundLocalError == "UnboundLocalError: local variable referenced before assignment"

(* ------------------------------ state --------------------------------- *)

VARIABLES
    number_components,  \* self._number_components
    basis_shapes,       \* self._basis_shapes : 0..N-1 -> shape
    basis_sizes,        \* self._basis_sizes  : 0..N-1 -> cached size
    coefficients,       \* self._coefficients : 0..N-1 -> array reference
    vector,             \* the caller's array last given to set_coefficient_vector
    last,               \* the call that has just returned, NoCall once the caller went on
    kept,               \* what the caller noted down before a call (round trips)
    qr                  \* the quadrature rule built last, and how the constructor went

vars == <<number_components, basis_shapes, basis_sizes, coefficients, vector, last, kept, qr>>

Components == 0..(number_components - 1)

\* component indices a caller may pass: valid ones, negative ones, too large ones
ComponentArgs == (-(MaxComponents + 1))..MaxComponents

\* the record of a call: its name, its outcome, the component argument
\* (<<>> for None) and what else a reader of a trace wants to know
Call(op, status, component, info) ==
    [op |-> op, status |-> status, component |-> component, info |-> info]

NoCall == Call("", Ok, <<>>, <<>>)

\* the array the caller holds after a call: a private one ("copy"), or row
\* `row` of self._coefficients[component] itself ("view"); origin names the
\* call it came from
NoHandle == [kind |-> "none", origin |-> "", component |-> 0, row |-> 0]
CopyHandle(origin) == [kind |-> "copy", origin |-> origin, component |-> 0, row |-> 0]
ViewHandle(origin, component, row) == [kind |-> "view", origin |-> origin, component |-> component, row |-> row]

\* what a getter hands back
Returns(status, ret, handle) == [status |-> status, ret |-> ret, handle |-> handle]

\* an array of the store's own
Own(data) == [view |-> FALSE, data |-> data, off |-> 0, len |-> 0]
\* a window of len rows of the caller's array, starting at row off
View(off, len) == [view |-> TRUE, data |-> <<>>, off |-> off, len |-> len]

\* the contents of an array reference
Deref(ref, vec) == IF ref.view THEN SubSeq(vec, ref.off + 1, ref.off + ref.len) ELSE ref.data

\* the contents of self._coefficients[i]
Coeff(i) == Deref(coefficients[i], vector)

AllCoeff == [i \in Components |-> Coeff(i)]

Zeros(n) == [p \in 1..n |-> 0]

\* The caller's array is followed only where the store can see it: a row no
\* window covers is kept as 0, and the array is dropped once no component
\* is a window into it.
Visible(coeffs, vec) ==
    IF \E i \in DOMAIN coeffs : coeffs[i].view
    THEN [p \in 1..Len(vec) |->
            IF \E i \in DOMAIN coeffs :
                  coeffs[i].view /\ coeffs[i].off < p /\ p <= coeffs[i].off + coeffs[i].len
            THEN vec[p] ELSE 0]
    ELSE <<>>

(* --------------------- _resize_coefficient_storage --------------------- *)

\* the list comprehensions of lines 38-41: iterate the smaller shape
Intersection(bs_old, bs_new) ==
    IF get_basissize(bs_old) <= get_basissize(bs_new)
    THEN SelectSeq(Iterate(bs_old), LAMBDA k : Contains(bs_new, k))
    ELSE SelectSeq(Iterate(bs_new), LAMBDA k : Contains(bs_old, k))

\* lines 46-47, the index mappings
OldIndices(bs_old, bs_new) ==
    LET insec == Intersection(bs_old, bs_new)
    IN  [p \in 1..Len(insec) |-> LinearIndex(bs_old, insec[p])]
\* a slip: the rows of the old shape used for the new vector
NewIndicesAsOld(bs_old, bs_new) == OldIndices(bs_old, bs_new)
NewIndices(bs_old, bs_new) ==
    LET insec == Intersection(bs_old, bs_new)
    IN  [p \in 1..Len(insec) |-> LinearIndex(bs_new, insec[p])]

\* the read c[i] of line 51 raises IndexError when an index is past the end of c
ResizeFails(c, bs_old, bs_new) ==
    LET i == OldIndices(bs_old, bs_new)
    IN  \E p \in 1..Len(i) : i[p] >= Len(c)

\* cnew[j] = c[i] from position p of the index arrays on
RECURSIVE Assign(_, _, _, _, _)
Assign(cnew, j, c, i, p) ==
    IF p > Len(j) THEN cnew
    ELSE Assign([cnew EXCEPT ![j[p] + 1] = c[i[p] + 1]], j, c, i, p + 1)

\* a slip: the old rows kept where they are, cut or padded with zeros
ScatterByRow(c, bs_old, bs_new) ==
    [n \in 1..get_basissize(bs_new) |-> IF n <= Len(c) THEN c[n] ELSE 0]
\* lines 50-51: cnew = zeros((bsn,1)); cnew[j] = c[i]
Scatter(c, bs_old, bs_new) ==
    Assign(Zeros(get_basissize(bs_new)), NewIndices(bs_old, bs_new), c, OldIndices(bs_old, bs_new), 1)

\* the coefficient list after _resize_coefficient_storage(component, ...):
\* a fresh array replaces the component's array (line 52)
ResizeCoefficientStorage(coeffs, vec, component, bs_old, bs_new) ==
    [coeffs EXCEPT ![component] = Own(Scatter(Deref(coeffs[component], vec), bs_old, bs_new))]

(* ------------------------------ Init ---------------------------------- *)

\* after construction: N components, each with a basis shape, its cached
\* size and a zero coefficient vector of that size
Init ==
    /\ number_components \in 1..MaxComponents
    /\ basis_shapes \in [0..(number_components - 1) -> Shapes]
    /\ basis_sizes = [i \in 0..(number_components - 1) |-> get_basissize(basis_shapes[i])]
    /\ coefficients = [i \in 0..(number_components - 1) |-> Own(Zeros(basis_sizes[i]))]
    /\ vector = <<>>
    /\ last = NoCall
    /\ kept = <<>>
    /\ qr = <<>>

(* --------------------------- get_basis_shape --------------------------- *)

\* a Python list index: negative indices count from the end
ListIndexFails(component) == component >= number_components \/ component < -number_components
ListIndex(component) == IF component < 0 THEN component + number_components ELSE component

\* lines 63-64
get_basis_shape(component) ==
    IF ListIndexFails(component)
    THEN Returns(IndexError, <<>>, NoHandle)
    ELSE Returns(Ok, basis_shapes[ListIndex(component)], NoHandle)

\* component=None: the tuple of all shapes (line 66)
get_basis_shape_all ==
    Returns(Ok, [n \in 1..number_components |-> basis_shapes[n - 1]], NoHandle)

(* --------------------------- set_basis_shape --------------------------- *)

\* line 99: the cache of basis sizes
UpdateSizes(shapes) == [i \in DOMAIN shapes |-> get_basissize(shapes[i])]

\* lines 78-86 and 99, one component
set_basis_shape(basis_shape, component) ==
    IF component \notin Components
    THEN /\ last' = Call("set_basis_shape", InvalidComponent, <<component>>, <<>>)
         /\ UNCHANGED <<number_components, basis_shapes, basis_sizes, coefficients, vector>>
    ELSE IF ResizeFails(Coeff(component), basis_shapes[component], basis_shape)
    THEN /\ last' = Call("set_basis_shape", IndexError, <<component>>, <<>>)
         /\ UNCHANGED <<number_components, basis_shapes, basis_sizes, coefficients, vector>>
    ELSE /\ coefficients' = ResizeCoefficientStorage(coefficients, vector, component,
                                                     basis_shapes[component], basis_shape)
         /\ basis_shapes' = [basis_shapes EXCEPT ![component] = basis_shape]
         /\ basis_sizes' = UpdateSizes(basis_shapes')
         /\ vector' = Visible(coefficients', vector)
         /\ last' = Call("set_basis_shape", Ok, <<component>>, <<basis_shapes[component]>>)
         /\ UNCHANGED number_components

\* the loop of lines 92-96 from position index on: the state it leaves and
\* whether a resize raised
RECURSIVE SetShapesLoop(_, _, _, _, _)
SetShapesLoop(index, shape_list, coeffs, shapes, vec) ==
    IF index = Len(shape_list)
    THEN [coeffs |-> coeffs, shapes |-> shapes, status |-> Ok]
    ELSE IF ResizeFails(Deref(coeffs[index], vec), shapes[index], shape_list[index + 1])
    THEN [coeffs |-> coeffs, shapes |-> shapes, status |-> IndexError]
    ELSE SetShapesLoop(index + 1, shape_list,
                       ResizeCoefficientStorage(coeffs, vec, index, shapes[index], shape_list[index + 1]),
                       [shapes EXCEPT ![index] = shape_list[index + 1]], vec)

\* a slip: only a list that is too long is turned down
CountFailsWhenLong(list) == Len(list) > number_components
\* lines 89 and 160: len(...) != self._number_components
CountFails(list) == Len(list) # number_components

\* lines 87-99, all components (component=None)
set_basis_shape_all(shape_list) ==
    IF CountFails(shape_list)
    THEN /\ last' = Call("set_basis_shape", CountMismatch, <<>>, <<Len(shape_list)>>)
         /\ UNCHANGED <<number_components, basis_shapes, basis_sizes, coefficients, vector>>
    ELSE LET r == SetShapesLoop(0, shape_list, coefficients, basis_shapes, vector)
         IN  /\ coefficients' = r.coeffs
             /\ basis_shapes' = r.shapes
             /\ basis_sizes' = IF r.status = Ok THEN UpdateSizes(r.shapes) ELSE basis_sizes
             /\ vector' = Visible(r.coeffs, vector)
             /\ last' = Call("set_basis_shape", r.status, <<>>, <<Len(shape_list)>>)
             /\ UNCHANGED number_components

(* ------------------- set_coefficient / get_coefficient ------------------ *)

\* component > self._number_components-1 or component < 0
NoSuchComponent(component) == component > number_components - 1 \/ component < 0

\* arr[row] = value on the array behind a reference: in place, so through a
\* window it lands in the caller's array
WriteRow(coeffs, vec, component, row, value) ==
    IF coeffs[component].view
    THEN [coeffs |-> coeffs,
          vec |-> [vec EXCEPT ![coeffs[component].off + row + 1] = value]]
    ELSE [coeffs |-> [coeffs EXCEPT ![component].data[row + 1] = value],
          vec |-> vec]

\* lines 117-124
set_coefficient(component, index, value) ==
    IF NoSuchComponent(component)
    THEN /\ last' = Call("set_coefficient", InvalidComponent, <<component>>, <<>>)
         /\ UNCHANGED <<number_components, basis_shapes, basis_sizes, coefficients, vector>>
    ELSE IF ~Contains(basis_shapes[component], index)
    THEN /\ last' = Call("set_coefficient", NotPresent, <<component>>, <<>>)
         /\ UNCHANGED <<number_components, basis_shapes, basis_sizes, coefficients, vector>>
    ELSE LET key == LinearIndex(basis_shapes[component], index)
         IN  IF key >= Len(Coeff(component))
             THEN /\ last' = Call("set_coefficient", IndexError, <<component>>, <<>>)
                  /\ UNCHANGED <<number_components, basis_shapes, basis_sizes, coefficients, vector>>
             ELSE LET w == WriteRow(coefficients, vector, component, key, value)
                  IN  /\ coefficients' = w.coeffs
                      /\ vector' = w.vec
                      /\ last' = Call("set_coefficient", Ok, <<component>>, <<>>)
                      /\ UNCHANGED <<number_components, basis_shapes, basis_sizes>>

\* what line 144 returns: row key of the (K,1) array, which numpy hands out
\* as a one-element window of the array, not as a number
RowOf(component, key) == ViewHandle("get_coefficient", component, key)

\* lines 137-144
get_coefficient(component, index) ==
    IF NoSuchComponent(component)
    THEN Returns(InvalidComponent, <<>>, NoHandle)
    ELSE IF ~Contains(basis_shapes[component], index)
    THEN Returns(NotPresent, <<>>, NoHandle)
    ELSE LET key == LinearIndex(basis_shapes[component], index)
         IN  IF key >= Len(Coeff(component))
             THEN Returns(IndexError, <<>>, NoHandle)
             ELSE Returns(Ok, <<Coeff(component)[key + 1]>>, RowOf(component, key))

(* ------------------ set_coefficients / get_coefficients ----------------- *)

\* value.copy().reshape((bs,1)): a fresh array, or ValueError for another size
ReshapeFails(value, bs) == Len(value) # bs
CopyReshape(value, bs) == Own(value)

\* the loop of lines 163-165 from position index on: the list it leaves,
\* whether a reshape raised, and at which position
RECURSIVE SetCoefficientsLoop(_, _, _)
SetCoefficientsLoop(index, values, coeffs) ==
    IF index = Len(values)
    THEN [coeffs |-> coeffs, status |-> Ok, at |-> index]
    ELSE IF ReshapeFails(values[index + 1], basis_sizes[index])
    THEN [coeffs |-> coeffs, status |-> ReshapeError, at |-> index]
    ELSE SetCoefficientsLoop(index + 1, values,
                             [coeffs EXCEPT ![index] = CopyReshape(values[index + 1], basis_sizes[index])])

\* lines 159-165, all components (component=None)
set_coefficients_all(values) ==
    IF CountFails(values)
    THEN /\ last' = Call("set_coefficients", CountMismatch, <<>>, <<Len(values)>>)
         /\ UNCHANGED <<number_components, basis_shapes, basis_sizes, coefficients, vector>>
    ELSE LET r == SetCoefficientsLoop(0, values, coefficients)
         IN  /\ coefficients' = r.coeffs
             /\ vector' = Visible(r.coeffs, vector)
             /\ last' = Call("set_coefficients", r.status, <<>>, <<Len(values)>>)
             /\ UNCHANGED <<number_components, basis_shapes, basis_sizes>>

\* lines 166-171, one component: line 171 reads the local `value`, which
\* only the loop of the other branch binds
set_coefficients(values, component) ==
    /\ last' = IF NoSuchComponent(component)
               THEN Call("set_coefficients", InvalidComponent, <<component>>, <<>>)
               ELSE Call("set_coefficients", UnboundLocalError, <<component>>, <<>>)
    /\ UNCHANGED <<number_components, basis_shapes, basis_sizes, coefficients, vector>>

\* line 187
get_coefficients_all ==
    Returns(Ok, [n \in 1..number_components |-> Coeff(n - 1)], CopyHandle("get_coefficients"))

\* lines 189-192
get_coefficients(component) ==
    IF NoSuchComponent(component)
    THEN Returns(InvalidComponent, <<>>, NoHandle)
    ELSE Returns(Ok, Coeff(component), CopyHandle("get_coefficients"))

(* ------------- get_coefficient_vector / set_coefficient_vector ---------- *)

\* a slip: the arrays stacked last one first
RECURSIVE VStackLastFirst(_, _)
VStackLastFirst(arrays, n) ==
    IF n = 0 THEN <<>> ELSE arrays[n - 1] \o VStackLastFirst(arrays, n - 1)
\* vstack: the first n arrays one after the other, in a new array
RECURSIVE VStack(_, _)
VStack(arrays, n) == IF n = 0 THEN <<>> ELSE VStack(arrays, n - 1) \o arrays[n - 1]

\* line 201
get_coefficient_vector ==
    Returns(Ok, VStack([i \in Components |-> Coeff(i)], number_components),
            CopyHandle("get_coefficient_vector"))

\* cumsum(self._basis_sizes): the sum of the first n cached sizes
RECURSIVE CumSum(_, _)
CumSum(sizes, n) == IF n = 0 THEN 0 ELSE CumSum(sizes, n - 1) + sizes[n - 1]

Min(a, b) == IF a < b THEN a ELSE b

\* a slip: the pieces copied out of the caller's array
VSplitCopies(vec, sizes, n) ==
    [i \in 0..(n - 1) |->
        LET start == Min(CumSum(sizes, i), Len(vec))
            stop == IF i = n - 1 THEN Len(vec) ELSE Min(CumSum(sizes, i + 1), Len(vec))
        IN  Own(SubSeq(vec, start + 1, stop))]
\* vsplit(vector, partition): piece i is the slice [partition[i-1] : partition[i]]
\* of the rows, the last piece running to the end; a slice is cut at the
\* length of the array and is a window of it
VSplit(vec, sizes, n) ==
    [i \in 0..(n - 1) |->
        LET start == Min(CumSum(sizes, i), Len(vec))
            stop == IF i = n - 1 THEN Len(vec) ELSE Min(CumSum(sizes, i + 1), Len(vec))
        IN  View(start, stop - start)]

\* lines 214-217: no check of the length, no copy
set_coefficient_vector(vec) ==
    /\ coefficients' = VSplit(vec, basis_sizes, number_components)
    /\ vector' = Visible(coefficients', vec)
    /\ last' = Call("set_coefficient_vector", Ok, <<>>, <<Len(vec)>>)
    /\ UNCHANGED <<number_components, basis_shapes, basis_sizes>>

(* ------------------------------ the caller ----------------------------- *)

\* the caller writes into the array it gave to set_coefficient_vector
caller_write_vector(row, value) ==
    /\ row < Len(vector)
    /\ vector' = Visible(coefficients, [vector EXCEPT ![row + 1] = value])
    /\ last' = Call("caller_write_vector", Ok, <<>>, <<>>)
    /\ UNCHANGED <<number_components, basis_shapes, basis_sizes, coefficients>>

\* the caller writes into an array a getter returned, or into one it passed
\* to set_coefficients
caller_write(handle, value) ==
    /\ handle.kind # "none"
    /\ LET w == IF handle.kind = "view"
                THEN WriteRow(coefficients, vector, handle.component, handle.row, value)
                ELSE [coeffs |-> coefficients, vec |-> vector]
       IN  /\ coefficients' = w.coeffs
           /\ vector' = w.vec
    /\ last' = Call("caller_write", Ok, <<>>, <<handle.origin>>)
    /\ UNCHANGED <<number_components, basis_shapes, basis_sizes>>

\* the caller has looked at the outcome of the call and goes on
caller_continues ==
    /\ last # NoCall
    /\ last' = NoCall
    /\ UNCHANGED <<number_components, basis_shapes, basis_sizes, coefficients, vector>>

(* ------------------------------ arguments ------------------------------ *)

\* a test vector of n rows: the values in turn, starting after s
TestVector(n, s) == [p \in 1..n |-> (s + p) % (MaxVal + 1)]

\* vectors of the size asked for
FittingVectors(size) == {TestVector(size, s) : s \in Values}

\* vectors a caller passes where size rows are expected: of that size, one
\* row short, one row long
VectorArgs(size) == {TestVector(n, s) : n \in {m \in {size - 1, size, size + 1} : m >= 0}, s \in Values}

\* one vector per component, component i's of its size, one row short or
\* one row long
VectorListArgs ==
    {[n \in 1..number_components |-> TestVector(basis_sizes[n - 1] + d[n], s)] :
        d \in {e \in [1..number_components -> -1..1] :
                  \A n \in 1..number_components : basis_sizes[n - 1] + e[n] >= 0},
        s \in Values}

\* component arguments with what goes with them: a handler that rejects the
\* component looks at nothing else, so one shape, index, value or vector
\* stands for all
BadComponents == ComponentArgs \ Components
SetBasisShapeArgs == (Shapes \X Components) \cup ({<<1, 1>>} \X BadComponents)
SetCoefficientArgs ==
    (Components \X MultiIndices \X Values) \cup (BadComponents \X {<<0, 0>>} \X {0})
SetCoefficientsArgs ==
    {<<values, component>> : component \in Components, values \in VectorArgs(2)}
    \cup {<<<<0>>, component>> : component \in BadComponents}

\* a list with one entry less, a list with one entry more
ShortList(list) == SubSeq(list, 1, Len(list) - 1)
LongList(list) == Append(list, list[1])

ShapeListArgs == [1..number_components -> Shapes]

\* the arrays getters hand to the caller, and those the caller passed to
\* set_coefficients (line 165 took copies of them)
HandleArgs ==
    {get_coefficient(component, index).handle : component \in Components, index \in MultiIndices}
    \cup {get_coefficients(component).handle : component \in Components}
    \cup {get_coefficients_all.handle, get_coefficient_vector.handle, CopyHandle("set_coefficients")}

\* the caller is not in the middle of looking at an outcome
Ready == last = NoCall

\* the total of the cached sizes
TotalSize == CumSum(basis_sizes, number_components)

(* --------------------------- specifications ---------------------------- *)

\* Callers keep to the documented arguments of set_coefficient_vector ("a
\* two-dimensional ndarray of appropriate shape"); everything else a caller
\* may get wrong, it does.
Next ==
    \/ Ready /\ UNCHANGED <<kept, qr>>
       /\ \E args \in SetBasisShapeArgs : set_basis_shape(args[1], args[2])
    \/ Ready /\ UNCHANGED <<kept, qr>>
       /\ \E shape_list \in ShapeListArgs :
             \/ set_basis_shape_all(shape_list)
             \/ set_basis_shape_all(ShortList(shape_list))
             \/ set_basis_shape_all(LongList(shape_list))
    \/ Ready /\ UNCHANGED <<kept, qr>>
       /\ \E args \in SetCoefficientArgs : set_coefficient(args[1], args[2], args[3])
    \/ Ready /\ UNCHANGED <<kept, qr>>
       /\ \E values \in VectorListArgs :
             \/ set_coefficients_all(values)
             \/ set_coefficients_all(ShortList(values))
             \/ set_coefficients_all(LongList(values))
    \/ Ready /\ UNCHANGED <<kept, qr>>
       /\ \E args \in SetCoefficientsArgs : set_coefficients(args[1], args[2])
    \/ Ready /\ UNCHANGED <<kept, qr>>
       /\ \E vec \in FittingVectors(TotalSize) : set_coefficient_vector(vec)
    \/ Ready /\ UNCHANGED <<kept, qr>>
       /\ \E row \in 0..(Len(vector) - 1), value \in Values : caller_write_vector(row, value)
    \/ Ready /\ UNCHANGED <<kept, qr>>
       /\ \E handle \in HandleArgs, value \in Values : caller_write(handle, value)
    \/ caller_continues /\ UNCHANGED <<kept, qr>>

Spec == Init /\ [][Next]_vars

\* Callers that may also hand set_coefficient_vector a vector one row short
\* or one row long: the four mutators of the store.  What is at stake here
\* is the length of the vectors, not their contents, so set_coefficient is
\* called for the first multi-index and for an absent one only.
NextAnyVector ==
    \/ Ready /\ UNCHANGED <<kept, qr>>
       /\ \E args \in SetBasisShapeArgs : set_basis_shape(args[1], args[2])
    \/ Ready /\ UNCHANGED <<kept, qr>>
       /\ \E shape_list \in ShapeListArgs :
             \/ set_basis_shape_all(shape_list)
             \/ set_basis_shape_all(ShortList(shape_list))
             \/ set_basis_shape_all(LongList(shape_list))
    \/ Ready /\ UNCHANGED <<kept, qr>>
       /\ \E args \in SetCoefficientArgs :
             /\ args[2] \in {<<0, 0>>, <<MaxLimitX, MaxLimitY>>}
             /\ set_coefficient(args[1], args[2], args[3])
    \/ Ready /\ UNCHANGED <<kept, qr>>
       /\ \E values \in VectorListArgs :
             \/ set_coefficients_all(values)
             \/ set_coefficients_all(ShortList(values))
             \/ set_coefficients_all(LongList(values))
    \/ Ready /\ UNCHANGED <<kept, qr>>
       /\ \E args \in SetCoefficientsArgs : set_coefficients(args[1], args[2])
    \/ Ready /\ UNCHANGED <<kept, qr>>
       /\ \E vec \in VectorArgs(TotalSize) : set_coefficient_vector(vec)
    \/ caller_continues /\ UNCHANGED <<kept, qr>>

SpecAnyVector == Init /\ [][NextAnyVector]_vars

\* A round trip of one component's basis shape: from a store with any
\* coefficients, set_basis_shape(B, i), then set_basis_shape(A, i) with the
\* shape A the component had.  The caller keeps A and the coefficients it
\* started from.
AllVectors(n) == [1..n -> Values]

InitRoundTrip ==
    /\ number_components \in 1..MaxComponents
    /\ basis_shapes \in [0..(number_components - 1) -> Shapes]
    /\ basis_sizes = [i \in 0..(number_components - 1) |-> get_basissize(basis_shapes[i])]
    /\ \E c \in [0..(number_components - 1) -> UNION {AllVectors(get_basissize(bs)) : bs \in Shapes}] :
          /\ \A i \in 0..(number_components - 1) : Len(c[i]) = basis_sizes[i]
          /\ coefficients = [i \in 0..(number_components - 1) |-> Own(c[i])]
    /\ vector = <<>>
    /\ last = NoCall
    /\ kept = <<>>
    /\ qr = <<>>

round_trip_there(basis_shape, component) ==
    /\ kept = <<>>
    /\ set_basis_shape(basis_shape, component)
    /\ kept' = <<[component |-> component, shape |-> basis_shapes[component],
                 coefficients |-> Coeff(component), via |-> basis_shape, back |-> FALSE]>>
    /\ UNCHANGED qr

round_trip_back ==
    /\ kept # <<>>
    /\ ~kept[1].back
    /\ set_basis_shape(kept[1].shape, kept[1].component)
    /\ kept' = <<[kept[1] EXCEPT !.back = TRUE]>>
    /\ UNCHANGED qr

NextRoundTrip ==
    \/ \E basis_shape \in Shapes, component \in Components : round_trip_there(basis_shape, component)
    \/ round_trip_back

SpecRoundTrip == InitRoundTrip /\ [][NextRoundTrip]_vars

\* The stacked vector: from a store with any coefficients the caller sets a
\* vector of the total basis size, or sets the vector the store has just
\* returned, and now and then gives a component another shape.  The caller
\* keeps the vector it passed.
ShapeSizes == [i \in Components |-> get_basissize(basis_shapes[i])]

vector_set(vec) ==
    /\ set_coefficient_vector(vec)
    /\ kept' = <<[vec |-> vec, echo |-> FALSE, before |-> <<>>]>>
    /\ UNCHANGED qr

vector_echo ==
    /\ set_coefficient_vector(get_coefficient_vector.ret)
    /\ kept' = <<[vec |-> get_coefficient_vector.ret, echo |-> TRUE, before |-> AllCoeff]>>
    /\ UNCHANGED qr

NextVector ==
    \/ \E vec \in AllVectors(CumSum(ShapeSizes, number_components)) : vector_set(vec)
    \/ vector_echo
    \/ \E basis_shape \in Shapes, component \in Components :
          set_basis_shape(basis_shape, component) /\ kept' = <<>> /\ UNCHANGED qr

SpecVector == InitRoundTrip /\ [][NextVector]_vars

(* --------------------------- quadrature rules -------------------------- *)

\* Numbers are kept as terms: a node is the root it is, a weight the formula
\* it was computed by and what the formula read.  Arrays carry their number
\* of axes: a (1,N) array is not an (N,) array.
MaxOrder == 3
MaxRules == 2

\* orders and shape parameters a caller passes
OrderArgs == (-1)..MaxOrder
ShapeParameters == {-2, -1, 0, 1}

OrderError == "ValueError: quadrature rule has to be of order 1 at least"
RootFinderError == "ValueError: alpha > -1"

\* options={}
NoOptions == <<>>

Array1(data) == [ndim |-> 1, rows |-> <<data>>]
Array2(rows) == [ndim |-> 2, rows |-> rows]

\* scipy's h_roots(n): the n roots of the Hermite polynomial
h_roots(order) == [i \in 1..order |-> <<"h_roots", order, 0, i>>]

\* scipy's la_roots(n, alpha): raises for alpha <= -1, else the n roots of
\* the generalized Laguerre polynomial
la_roots_fails(order, a) == ~(a > -1)
la_roots(order, a) == [i \in 1..order |-> <<"la_roots", order, a, i>>]

\* a row of H: as zeros() left it, or holding the k-th Hermite function
ZeroRow == [written |-> FALSE, member |-> 0]
MemberRow(k) == [written |-> TRUE, member |-> k]

\* GaussHermiteQR._hermite_recursion: H = zeros((order, N)); H[0] = ...;
\* if order > 1: H[1] = ...; for k in xrange(2, order): H[k] = ...
GaussHermiteQR_hermite_recursion(order) ==
    [k \in 0..(order - 1) |->
        IF k = 0 THEN MemberRow(0)
        ELSE IF order > 1 THEN MemberRow(k)
        ELSE ZeroRow]

\* GaussLaguerreQR._hermite_recursion: H = zeros((2*order, N)); H[0] = ...;
\* if order > 1: H[1] = ...; for k in xrange(2, 2*order): H[k] = ...
GaussLaguerreQR_hermite_recursion(order) ==
    [k \in 0..(2 * order - 1) |->
        IF k = 0 THEN MemberRow(0)
        ELSE IF order > 1 THEN MemberRow(k)
        ELSE ZeroRow]

\* what a constructor leaves: the exception or the object, the steps it
\* took in their order, and the array its recursion returned
Failed(status, trace) == [status |-> status, rule |-> <<>>, trace |-> trace, H |-> <<>>]
Built(rule, trace, H) == [status |-> Ok, rule |-> <<rule>>, trace |-> trace, H |-> H]

\* GaussHermiteQR.__init__
GaussHermiteQR(order) ==
    IF ~(order > 0)
    THEN Failed(OrderError, <<"check order">>)
    ELSE LET nodes == h_roots(order)
             H == GaussHermiteQR_hermite_recursion(order)
             h == H[order - 1]
             weights == [i \in 1..Len(nodes) |->
                            [formula |-> "1/(h^2*order)", reads |-> <<h>>,
                             node |-> nodes[i], order |-> order]]
         IN  Built([type |-> "GaussHermiteQR", dimension |-> 1, order |-> <<order>>,
                    a |-> <<>>, options |-> NoOptions, number_nodes |-> Len(nodes),
                    nodes |-> Array2(<<nodes>>), weights |-> Array2(<<weights>>),
                    qrs |-> <<>>],
                   <<"check order", "root finder", "zeros">>, H)

\* GaussLaguerreQR.__init__
GaussLaguerreQR(order, a) ==
    IF ~(order > 0)
    THEN Failed(OrderError, <<"check order">>)
    ELSE IF la_roots_fails(order, a)
    THEN Failed(RootFinderError, <<"check order", "root finder">>)
    ELSE LET nodes == la_roots(order, a)
             h == GaussLaguerreQR_hermite_recursion(order)
             weights == [i \in 1..Len(nodes) |->
                            [formula |-> "c*sqrt(node)/(h*h)",
                             reads |-> <<h[2 * order - 2], h[2 * order - 1]>>,
                             node |-> nodes[i], order |-> order]]
         IN  Built([type |-> "GaussLaguerreQR", dimension |-> 1, order |-> <<order>>,
                    a |-> <<a>>, options |-> NoOptions, number_nodes |-> Len(nodes),
                    nodes |-> Array2(<<nodes>>), weights |-> Array2(<<weights>>),
                    qrs |-> <<>>],
                   <<"check order", "root finder", "zeros">>, h)

\* QuadratureRule.get_number_nodes, get_nodes, get_weights
get_number_nodes(rule) == rule.number_nodes
get_nodes(rule) == rule.nodes
get_weights(rule) == rule.weights

\* numpy's squeeze, as meshgrid_nd applies it: a (1,N) array becomes (N,)
Squeeze(array) ==
    IF array.ndim = 2 /\ Len(array.rows) = 1 THEN Array1(array.rows[1]) ELSE array

\* the number of points an array holds, one a column
Columns(array) == Len(array.rows[1])

\* the product of the first n numbers of a list
RECURSIVE Prod(_, _)
Prod(sizes, n) == IF n = 0 THEN 1 ELSE Prod(sizes, n - 1) * sizes[n]

\* a slip: flattened with the first axis running fastest
UnravelFirstFastest(c, sizes) ==
    [d \in 1..Len(sizes) |-> ((c \div Prod(sizes, d - 1)) % sizes[d]) + 1]
\* ndarray.flatten(): position c of the flat array is the grid point whose
\* last axis runs fastest (row-major)
Unravel(c, sizes) ==
    [d \in 1..Len(sizes) |-> ((c \div (Prod(sizes, Len(sizes)) \div Prod(sizes, d))) % sizes[d]) + 1]

\* meshgrid_nd: grid d holds, at every point of the outer grid, the point
\* of array d that the point's d-th index names
meshgrid_nd(arrays, d, index) ==
    [r \in 1..Len(arrays[d].rows) |-> arrays[d].rows[r][index[d]]]

GridSizes(arrays) == [d \in 1..Len(arrays) |-> Columns(arrays[d])]

\* node.flatten() for the grid of array d: a row for each coordinate
FlatNodes(arrays, d) ==
    LET sizes == GridSizes(arrays)
    IN  [r \in 1..Len(arrays[d].rows) |->
            [c \in 1..Prod(sizes, Len(sizes)) |-> meshgrid_nd(arrays, d, Unravel(c - 1, sizes))[r]]]

\* vstack of the flattened grids of the first n arrays
RECURSIVE StackNodes(_, _)
StackNodes(arrays, n) ==
    IF n = 0 THEN <<>> ELSE StackNodes(arrays, n - 1) \o FlatNodes(arrays, n)

\* reduce(lambda x,y: x*y, ...): one factor is left as it is
Reduce(factors) ==
    IF Len(factors) = 1 THEN factors[1] ELSE [formula |-> "*", of |-> factors]

\* a slip: the weights flattened the other way round
FlatWeightsFirstFastest(arrays) ==
    LET sizes == GridSizes(arrays)
    IN  [c \in 1..Prod(sizes, Len(sizes)) |->
            Reduce([d \in 1..Len(arrays) |->
                       meshgrid_nd(arrays, d, UnravelFirstFastest(c - 1, sizes))[1]])]
\* the product of the weight grids, flattened
FlatWeights(arrays) ==
    LET sizes == GridSizes(arrays)
    IN  [c \in 1..Prod(sizes, Len(sizes)) |->
            Reduce([d \in 1..Len(arrays) |->
                       meshgrid_nd(arrays, d, Unravel(c - 1, sizes))[1]])]

\* TensorProductQR.tensor_product
tensor_product(rules) ==
    LET node_arrays == [d \in 1..Len(rules) |-> Squeeze(get_nodes(rules[d]))]
        weight_arrays == [d \in 1..Len(rules) |-> Squeeze(get_weights(rules[d]))]
    IN  [nodes |-> Array2(StackNodes(node_arrays, Len(rules))),
         weights |-> Array1(FlatWeights(weight_arrays))]

\* TensorProductQR.__init__
TensorProductQR(rules) ==
    LET nw == tensor_product(rules)
    IN  Built([type |-> "TensorProductQR", dimension |-> Len(rules), order |-> <<>>,
               a |-> <<>>, options |-> NoOptions,
               number_nodes |-> Prod([d \in 1..Len(rules) |-> get_number_nodes(rules[d])],
                                     Len(rules)),
               nodes |-> nw.nodes, weights |-> nw.weights, qrs |-> rules],
              <<"tensor product">>, <<>>)

\* GaussHermiteQR.get_description
GaussHermiteQR_get_description(rule) ==
    [type |-> "GaussHermiteQR", dimension |-> rule.dimension, order |-> rule.order[1],
     options |-> rule.options]

\* a slip: the shape parameter left out
GaussLaguerreQR_get_description_without_a(rule) ==
    [type |-> "GaussLaguerreQR", dimension |-> rule.dimension, order |-> rule.order[1],
     options |-> rule.options]
\* GaussLaguerreQR.get_description
GaussLaguerreQR_get_description(rule) ==
    [type |-> "GaussLaguerreQR", dimension |-> rule.dimension, order |-> rule.order[1],
     a |-> rule.a[1], options |-> rule.options]

\* get_description of any rule; TensorProductQR.get_description asks its
\* constituents for theirs
RECURSIVE get_description(_)
get_description(rule) ==
    IF rule.type = "GaussHermiteQR" THEN GaussHermiteQR_get_description(rule)
    ELSE IF rule.type = "GaussLaguerreQR" THEN GaussLaguerreQR_get_description(rule)
    ELSE [type |-> "TensorProductQR", dimension |-> rule.dimension,
          qr_rules |-> [d \in 1..Len(rule.qrs) |-> get_description(rule.qrs[d])],
          options |-> rule.options]

\* a rule built from a description: each type's constructor with the
\* parameters the description names (a is 0 when it names none), a tensor
\* rule from its constituents built first, in their order
RECURSIVE create_quadrature_rule(_)
create_quadrature_rule(description) ==
    IF description.type = "GaussHermiteQR" THEN GaussHermiteQR(description.order)
    ELSE IF description.type = "GaussLaguerreQR"
    THEN GaussLaguerreQR(description.order,
                         IF "a" \in DOMAIN description THEN description.a ELSE 0)
    ELSE TensorProductQR([d \in 1..Len(description.qr_rules) |->
                             create_quadrature_rule(description.qr_rules[d]).rule[1]])

\* A caller of the quadrature rules: it builds Gauss rules of any order and
\* shape parameter, tensor rules of Gauss rules and of the tensor rule it
\* has just built, and rebuilds the rule it has from its description.  No
\* wavepacket is touched.
Made(call, args, result, original) ==
    <<[call |-> call, args |-> args, status |-> result.status, rule |-> result.rule,
       trace |-> result.trace, H |-> result.H, original |-> original]>>

HasRule == qr # <<>> /\ qr[1].status = Ok

GaussRules ==
    {GaussHermiteQR(order).rule[1] : order \in 1..MaxOrder}
    \cup {GaussLaguerreQR(order, a).rule[1] :
             order \in 1..MaxOrder, a \in {b \in ShapeParameters : b > -1}}

\* the rule the caller has, if it is a Gauss rule or a tensor rule of
\* Gauss rules
RuleAtHand ==
    IF HasRule /\ \A d \in 1..Len(qr[1].rule[1].qrs) : qr[1].rule[1].qrs[d].qrs = <<>>
    THEN {qr[1].rule[1]}
    ELSE {}

RuleListArgs == UNION {[1..n -> GaussRules \cup RuleAtHand] : n \in 1..MaxRules}

StoreIdle == UNCHANGED <<number_components, basis_shapes, basis_sizes, coefficients,
                         vector, last, kept>>

new_GaussHermiteQR(order) ==
    /\ qr' = Made("GaussHermiteQR", <<order>>, GaussHermiteQR(order), <<>>)
    /\ StoreIdle

new_GaussLaguerreQR(order, a) ==
    /\ qr' = Made("GaussLaguerreQR", <<order, a>>, GaussLaguerreQR(order, a), <<>>)
    /\ StoreIdle

new_TensorProductQR(rules) ==
    /\ qr' = Made("TensorProductQR", <<>>, TensorProductQR(rules), <<>>)
    /\ StoreIdle

rebuild ==
    /\ HasRule
    /\ qr' = Made("create_quadrature_rule", <<>>,
                  create_quadrature_rule(get_description(qr[1].rule[1])), qr[1].rule)
    /\ StoreIdle

InitQuadrature ==
    /\ number_components = 1
    /\ basis_shapes = [i \in {0} |-> <<1, 1>>]
    /\ basis_sizes = [i \in {0} |-> 1]
    /\ coefficients = [i \in {0} |-> Own(Zeros(1))]
    /\ vector = <<>>
    /\ last = NoCall
    /\ kept = <<>>
    /\ qr = <<>>

NextQuadrature ==
    \/ \E order \in OrderArgs : new_GaussHermiteQR(order)
    \/ \E order \in OrderArgs, a \in ShapeParameters : new_GaussLaguerreQR(order, a)
    \/ \E rules \in RuleListArgs : new_TensorProductQR(rules)
    \/ rebuild

SpecQuadrature == InitQuadrature /\ [][NextQuadrature]_vars

(* ------------------------------- claims -------------------------------- *)

\* all coefficient vectors, by component

\* C1: set_basis_shape(B, component=i) on a component of shape A with
\* coefficient vector c leaves a vector c' of length |B| with
\* c'[B-index(k)] = c[A-index(k)] for every multi-index k of both shapes and
\* 0 in every other row, whichever of A and B is the smaller, and leaves the
\* vectors of the other components as they were.
C1_ResizeKeepsIntersection ==
    [][(last'.op = "set_basis_shape" /\ last'.status = Ok) =>
          \A B \in Shapes, i \in Components :
             set_basis_shape(B, i) =>
                LET A == basis_shapes[i]
                    c == Coeff(i)
                    cnew == Coeff(i)'
                IN  /\ Len(cnew) = get_basissize(B)
                    /\ \A k \in MultiIndices :
                          Contains(B, k) =>
                             cnew[LinearIndex(B, k) + 1] =
                                IF Contains(A, k) THEN c[LinearIndex(A, k) + 1] ELSE 0
                    /\ \A j \in Components \ {i} : Coeff(j)' = Coeff(j)
      ]_vars

\* C1 happens: a component went from a larger shape to a smaller one, a
\* multi-index of both with different rows in the two shapes carries a
\* nonzero coefficient, and another component holds a nonzero coefficient
C1_Witness ==
    /\ last.op = "set_basis_shape" /\ last.status = Ok /\ Len(last.component) = 1
    /\ LET i == last.component[1]
           A == last.info[1]
           B == basis_shapes[i]
       IN  /\ get_basissize(A) > get_basissize(B)
           /\ \E k \in MultiIndices :
                 /\ Contains(A, k) /\ Contains(B, k)
                 /\ LinearIndex(A, k) # LinearIndex(B, k)
                 /\ Coeff(i)[LinearIndex(B, k) + 1] # 0
           /\ \E j \in Components \ {i} : \E p \in 1..Len(Coeff(j)) : Coeff(j)[p] # 0

\* C2: in every state reachable by set_basis_shape, set_coefficient,
\* set_coefficients and set_coefficient_vector calls, successful or failing,
\* with any vector the caller supplies, each component's coefficient vector
\* has the length of the component's current basis shape.
C2_LengthIsBasisSize ==
    \A i \in Components : Len(Coeff(i)) = get_basissize(basis_shapes[i])

\* C3: after set_basis_shape(B, i) and then set_basis_shape(A, i), with A
\* the shape component i had, the coefficient of every multi-index k of A
\* is the original one when k is in B, and 0 when it is not.
C3_RoundTrip ==
    (kept # <<>> /\ kept[1].back) =>
        LET i == kept[1].component
            A == kept[1].shape
            B == kept[1].via
            c == kept[1].coefficients
        IN  /\ last.status = Ok
            /\ basis_shapes[i] = A
            /\ \A k \in MultiIndices :
                  Contains(A, k) =>
                     Coeff(i)[LinearIndex(A, k) + 1] =
                        IF Contains(B, k) THEN c[LinearIndex(A, k) + 1] ELSE 0

\* C3 happens: a round trip is over in which a nonzero coefficient was
\* dropped and a nonzero coefficient, which had another row on the way,
\* came back
C3_Witness ==
    /\ kept # <<>> /\ kept[1].back
    /\ LET A == kept[1].shape
           B == kept[1].via
           c == kept[1].coefficients
       IN  /\ \E k \in MultiIndices :
                 Contains(A, k) /\ ~Contains(B, k) /\ c[LinearIndex(A, k) + 1] # 0
           /\ \E k \in MultiIndices :
                 /\ Contains(A, k) /\ Contains(B, k)
                 /\ LinearIndex(A, k) # LinearIndex(B, k)
                 /\ c[LinearIndex(A, k) + 1] # 0

\* C4: set_coefficients (all components or one component) given a vector
\* whose length is not the basis size of its component fails with a
\* shape-mismatch error and leaves every component's coefficient vector as
\* it was, also when the vector that does not fit is not the first.
C4_MismatchChangesNothing ==
    [][(last'.op = "set_coefficients" /\ last'.status # CountMismatch
           /\ last'.status # InvalidComponent) =>
          /\ \A values \in VectorListArgs :
                (/\ Len(last'.component) = 0
                 /\ \E n \in 1..number_components :
                       Len(values[n]) # get_basissize(basis_shapes[n - 1])
                 /\ set_coefficients_all(values))
                => (last'.status = ReshapeError /\ AllCoeff' = AllCoeff)
          /\ \A args \in SetCoefficientsArgs :
                (/\ Len(last'.component) = 1
                 /\ args[2] \in Components
                 /\ Len(args[1]) # get_basissize(basis_shapes[args[2]])
                 /\ set_coefficients(args[1], args[2]))
                => (last'.status = ReshapeError /\ AllCoeff' = AllCoeff)
      ]_vars

\* C5: set_basis_shape for all components and set_coefficients for all
\* components, given a list whose length is not the number of components,
\* fail with a count-mismatch error and have changed no basis shape, no
\* cached basis size and no coefficient vector.
C5_CountMismatchChangesNothing ==
    [][(/\ last'.op \in {"set_basis_shape", "set_coefficients"}
        /\ Len(last'.component) = 0
        /\ last'.info[1] # number_components) =>
          /\ last'.status = CountMismatch
          /\ UNCHANGED <<basis_shapes, basis_sizes, coefficients, vector>>
      ]_vars

\* C5 happens: a list with one vector too many was turned down by a store
\* that holds a nonzero coefficient
C5_Witness ==
    /\ last.op = "set_coefficients"
    /\ last.status = CountMismatch
    /\ last.info[1] > number_components
    /\ \E i \in Components : \E p \in 1..Len(Coeff(i)) : Coeff(i)[p] # 0

\* C6: with a valid component i, get_coefficient(i, k) and
\* set_coefficient(i, k, v) fail with a not-present error, changing nothing,
\* exactly when k is not in the basis shape component i has now, the one
\* set last; when k is present, set_coefficient(i, k, v) followed by
\* get_coefficient(i, k) yields v.
C6_NotPresentExactly ==
    [][/\ (last'.op = "set_coefficient" /\ last'.component[1] \in Components) =>
             \A args \in SetCoefficientArgs :
                set_coefficient(args[1], args[2], args[3]) =>
                   LET i == args[1]
                       k == args[2]
                       v == args[3]
                   IN  /\ get_coefficient(i, k).status = NotPresent
                             <=> ~Contains(basis_shapes[i], k)
                       /\ IF Contains(basis_shapes[i], k)
                          THEN /\ last'.status = Ok
                               /\ get_coefficient(i, k)'.status = Ok
                               /\ get_coefficient(i, k)'.ret = <<v>>
                          ELSE /\ last'.status = NotPresent
                               /\ UNCHANGED <<basis_shapes, basis_sizes, coefficients, vector>>
       /\ (last'.op = "set_basis_shape" /\ last'.status = Ok /\ Len(last'.component) = 1) =>
             \A args \in SetBasisShapeArgs :
                set_basis_shape(args[1], args[2]) =>
                   \A k \in MultiIndices :
                      get_coefficient(args[2], k)'.status = NotPresent
                         <=> ~Contains(args[1], k)
      ]_vars

\* C7: get_basis_shape, set_basis_shape, get_coefficient, set_coefficient,
\* get_coefficients and set_coefficients fail with an out-of-range error for
\* every component index outside 0 .. N-1, the negative ones too, and leave
\* the basis shapes and the coefficient vectors as they were.
C7_OutOfRangeFails ==
    [][/\ \A component \in BadComponents :
             /\ get_basis_shape(component).status \in {InvalidComponent, IndexError}
             /\ get_coefficient(component, <<0, 0>>).status = InvalidComponent
             /\ get_coefficients(component).status = InvalidComponent
       /\ (/\ last'.op \in {"set_basis_shape", "set_coefficient", "set_coefficients"}
           /\ Len(last'.component) = 1
           /\ last'.component[1] \notin Components) =>
             /\ last'.status \in {InvalidComponent, IndexError}
             /\ UNCHANGED <<basis_shapes, basis_sizes, coefficients, vector>>
      ]_vars

\* C8: for a valid component i and a vector v as long as component i's
\* basis size, set_coefficients(v, component=i) succeeds, get_coefficients(i)
\* then returns the values of v and no other component has changed; the
\* form for all components, given one fitting vector for each, stores each
\* vector in its component.
C8_SetCoefficientsStores ==
    [][(last'.op = "set_coefficients") =>
          /\ \A args \in SetCoefficientsArgs :
                (/\ Len(last'.component) = 1
                 /\ args[2] \in Components
                 /\ Len(args[1]) = get_basissize(basis_shapes[args[2]])
                 /\ set_coefficients(args[1], args[2])) =>
                   /\ last'.status = Ok
                   /\ get_coefficients(args[2])'.ret = args[1]
                   /\ \A j \in Components \ {args[2]} : Coeff(j)' = Coeff(j)
          /\ \A values \in VectorListArgs :
                (/\ Len(last'.component) = 0
                 /\ \A n \in 1..number_components :
                       Len(values[n]) = get_basissize(basis_shapes[n - 1])
                 /\ set_coefficients_all(values)) =>
                   /\ last'.status = Ok
                   /\ \A n \in 1..number_components :
                         get_coefficients(n - 1)'.ret = values[n]
      ]_vars

\* C9: what get_coefficient, get_coefficients (one component or all) and
\* get_coefficient_vector return, and an array passed to set_coefficients,
\* the caller can write to without changing anything the accessors of the
\* store return afterwards.
C9_ReturnedArraysAreCopies ==
    [][(last'.op = "caller_write") =>
          /\ AllCoeff' = AllCoeff
          /\ get_coefficient_vector'.ret = get_coefficient_vector.ret
          /\ \A i \in Components, k \in MultiIndices :
                get_coefficient(i, k)'.ret = get_coefficient(i, k).ret
      ]_vars

\* C10: set_coefficient_vector(v) does not copy v: right after the call
\* every component's vector is a part of v, so what the caller then writes
\* into v is what get_coefficient and get_coefficients return, and what
\* set_coefficient writes is in v; a component shares v until
\* set_coefficients or set_basis_shape replaces its vector, and writes to v
\* no longer reach it after that.
C10_VectorIsShared ==
    [][/\ (last'.op = "set_coefficient_vector") =>
             /\ \A i \in Components : coefficients'[i].view
             /\ get_coefficient_vector'.ret = vector'
             /\ Len(vector') = last'.info[1]
       /\ (last'.op = "caller_write_vector") =>
             \A row \in 0..(Len(vector) - 1), value \in Values :
                caller_write_vector(row, value) =>
                   \A i \in Components :
                      IF coefficients[i].view
                      THEN \A k \in MultiIndices :
                              Contains(basis_shapes[i], k) =>
                                 LET key == LinearIndex(basis_shapes[i], k)
                                     now == IF coefficients[i].off + key = row
                                            THEN value ELSE Coeff(i)[key + 1]
                                 IN  /\ get_coefficient(i, k)'.ret = <<now>>
                                     /\ get_coefficients(i)'.ret[key + 1] = now
                      ELSE Coeff(i)' = Coeff(i)
       /\ (last'.op = "set_coefficient" /\ last'.status = Ok) =>
             \A args \in SetCoefficientArgs :
                (set_coefficient(args[1], args[2], args[3]) /\ coefficients[args[1]].view) =>
                   /\ coefficients'[args[1]].view
                   /\ vector'[coefficients[args[1]].off
                                 + LinearIndex(basis_shapes[args[1]], args[2]) + 1] = args[3]
       /\ (last'.op = "set_basis_shape" /\ last'.status = Ok) =>
             \A i \in Components :
                IF Len(last'.component) = 0 \/ last'.component = <<i>>
                THEN ~coefficients'[i].view
                ELSE coefficients'[i] = coefficients[i]
       /\ (last'.op = "set_coefficients" /\ last'.status = Ok) =>
             \A i \in Components : ~coefficients'[i].view
      ]_vars

\* C10 happens: the caller has written into its array while one component
\* still shares it and holds a nonzero coefficient there, and the other
\* component, with a nonzero coefficient too, has had its vector replaced
C10_Witness ==
    /\ last.op = "caller_write_vector"
    /\ \E i \in Components, j \in Components :
          /\ coefficients[i].view
          /\ ~coefficients[j].view
          /\ \E p \in 1..Len(Coeff(i)) : Coeff(i)[p] # 0
          /\ \E p \in 1..Len(Coeff(j)) : Coeff(j)[p] # 0

\* C11: for any number of components, one included, and any stacked vector
\* v as long as the basis sizes together, set_coefficient_vector(v) gives
\* component i the rows of v from the total size of the components before
\* i, as many as its basis size, and get_coefficient_vector() then returns
\* v; set_coefficient_vector(get_coefficient_vector()) leaves the
\* coefficients of every component as they were.
C11_VectorIsPartitioned ==
    (last.op = "set_coefficient_vector") =>
        LET v == kept[1].vec
        IN  /\ \A i \in Components :
                  Coeff(i) = SubSeq(v, CumSum(ShapeSizes, i) + 1, CumSum(ShapeSizes, i + 1))
            /\ get_coefficient_vector.ret = v
            /\ kept[1].echo => AllCoeff = kept[1].before

\* C11 happens: two components of different sizes took their rows of a
\* vector whose two parts differ, and a returned vector has been set again
\* on a store with nonzero coefficients
C11_Witness ==
    /\ last.op = "set_coefficient_vector"
    /\ number_components = 2
    /\ Len(Coeff(0)) # Len(Coeff(1))
    /\ \E p \in 1..Len(Coeff(0)) : Coeff(0)[p] # 0
    /\ \E p \in 1..Len(Coeff(1)) : Coeff(1)[p] = 0
    /\ kept[1].echo

\* the rows of the node array that come before those of constituent d
RECURSIVE RowsBefore(_, _)
RowsBefore(rules, d) ==
    IF d = 1 THEN 0 ELSE RowsBefore(rules, d - 1) + Len(rules[d - 1].nodes.rows)

\* column c of the node array holds, in the rows of constituent d, the
\* j-th node of that constituent
NodeInColumn(rule, d, j, c) ==
    \A r \in 1..Len(rule.qrs[d].nodes.rows) :
       rule.nodes.rows[RowsBefore(rule.qrs, d) + r][c] = rule.qrs[d].nodes.rows[r][j]

\* C12: a tensor product rule of rules with N_1, ..., N_m nodes reports
\* N_1*...*N_m nodes and has as many node columns and as many weights, and
\* the weight at column c is the product of the weights of the constituent
\* nodes that column c of the node array is made of.
C12_TensorProductAligned ==
    (qr # <<>> /\ qr[1].call = "TensorProductQR") =>
        /\ qr[1].status = Ok
        /\ LET rule == qr[1].rule[1]
               m == Len(rule.qrs)
               N == [d \in 1..m |-> rule.qrs[d].number_nodes]
               total == Prod(N, m)
           IN  /\ get_number_nodes(rule) = total
               /\ \A r \in 1..Len(rule.nodes.rows) : Len(rule.nodes.rows[r]) = total
               /\ rule.weights.ndim = 1
               /\ Len(rule.weights.rows[1]) = total
               /\ \A c \in 1..total :
                     /\ \A d \in 1..m : \E j \in 1..N[d] : NodeInColumn(rule, d, j, c)
                     /\ rule.weights.rows[1][c] =
                           Reduce([d \in 1..m |->
                              rule.qrs[d].weights.rows[1][
                                 CHOOSE j \in 1..N[d] : NodeInColumn(rule, d, j, c)]])

\* C12 happens: a tensor product rule of a rule with two nodes and a rule
\* with three
C12_Witness ==
    /\ qr # <<>> /\ qr[1].call = "TensorProductQR" /\ qr[1].status = Ok
    /\ Len(qr[1].rule[1].qrs) = 2
    /\ qr[1].rule[1].qrs[1].number_nodes = 2
    /\ qr[1].rule[1].qrs[2].number_nodes = 3

\* the sum of the dimensions of the first n rules of a list
RECURSIVE SumOfDimensions(_, _)
SumOfDimensions(rules, n) ==
    IF n = 0 THEN 0 ELSE SumOfDimensions(rules, n - 1) + rules[n].dimension

\* C13: the dimension of a tensor product rule is the sum of the dimensions
\* of its constituents, for one constituent or more, also when a
\* constituent has a dimension above one (a tensor product rule itself);
\* get_description()["dimension"] is that value too.
C13_DimensionIsSum ==
    (qr # <<>> /\ qr[1].call = "TensorProductQR") =>
        /\ qr[1].status = Ok
        /\ LET rule == qr[1].rule[1]
           IN  /\ rule.dimension = SumOfDimensions(rule.qrs, Len(rule.qrs))
               /\ get_description(rule).dimension = SumOfDimensions(rule.qrs, Len(rule.qrs))

\* a description names reconstruction parameters only, a tensor rule's
\* description those of its constituents in their order
RECURSIVE OnlyParameters(_, _)
OnlyParameters(description, rule) ==
    /\ description.type = rule.type
    /\ description.dimension = rule.dimension
    /\ description.options = rule.options
    /\ IF rule.type = "GaussHermiteQR"
       THEN /\ DOMAIN description = {"type", "dimension", "order", "options"}
            /\ description.order = rule.order[1]
       ELSE IF rule.type = "GaussLaguerreQR"
       THEN /\ DOMAIN description = {"type", "dimension", "order", "a", "options"}
            /\ description.order = rule.order[1]
            /\ description.a = rule.a[1]
       ELSE /\ DOMAIN description = {"type", "dimension", "qr_rules", "options"}
            /\ Len(description.qr_rules) = Len(rule.qrs)
            /\ \A d \in 1..Len(rule.qrs) :
                  OnlyParameters(description.qr_rules[d], rule.qrs[d])

\* C14: the description of a Gauss-Hermite rule, a Gauss-Laguerre rule or
\* a tensor product rule of such rules holds reconstruction parameters only
\* (type, dimension, order, a for Laguerre, options, and for a tensor rule
\* the constituents' descriptions in their order under "qr_rules"), and the
\* rule built from the description has an equal description and equal node
\* and weight arrays.
C14_DescriptionRebuilds ==
    (qr # <<>> /\ qr[1].call = "create_quadrature_rule") =>
        /\ qr[1].status = Ok
        /\ LET rule == qr[1].rule[1]
               original == qr[1].original[1]
           IN  /\ OnlyParameters(get_description(original), original)
               /\ get_description(rule) = get_description(original)
               /\ get_nodes(rule) = get_nodes(original)
               /\ get_weights(rule) = get_weights(original)

\* C14 happens: a tensor product rule of a Gauss-Hermite rule and a
\* Gauss-Laguerre rule with a shape parameter other than 0 has been rebuilt
C14_Witness ==
    /\ qr # <<>> /\ qr[1].call = "create_quadrature_rule" /\ qr[1].status = Ok
    /\ qr[1].original[1].type = "TensorProductQR"
    /\ Len(qr[1].original[1].qrs) = 2
    /\ qr[1].original[1].qrs[1].type = "GaussHermiteQR"
    /\ qr[1].original[1].qrs[2].type = "GaussLaguerreQR"
    /\ qr[1].original[1].qrs[2].a # <<0>>
    /\ qr[1].original[1].qrs[2].number_nodes > 1

\* C15: a Gauss-Hermite or Gauss-Laguerre rule of an order below 1, and a
\* Gauss-Laguerre rule with a <= -1, is turned down by the constructor's own
\* check with an invalid-argument error, before the root finder is called and
\* before an array of nodes, weights or recursion values is allocated.
C15_InvalidArgumentFirst ==
    (/\ qr # <<>>
     /\ qr[1].call \in {"GaussHermiteQR", "GaussLaguerreQR"}
     /\ \/ qr[1].args[1] < 1
        \/ qr[1].call = "GaussLaguerreQR" /\ qr[1].args[2] <= -1) =>
        /\ qr[1].status = OrderError
        /\ qr[1].rule = <<>>
        /\ \A n \in 1..Len(qr[1].trace) : qr[1].trace[n] \notin {"root finder", "zeros"}

\* C16: for every order R >= 1, R = 1 too, every row of the array the
\* recursion returns (rows 0..R-1 for Gauss-Hermite, rows 0..2R-1 for
\* Gauss-Laguerre) holds the function of the family with the row's number
\* when the weight formula reads it; the rows the weight formulas read (row
\* R-1, rows 2R-2 and 2R-1) are not as zeros() left them.
C16_RowsWritten ==
    (/\ qr # <<>>
     /\ qr[1].call \in {"GaussHermiteQR", "GaussLaguerreQR"}
     /\ qr[1].status = Ok) =>
        LET R == qr[1].args[1]
            rows == IF qr[1].call = "GaussHermiteQR" THEN R ELSE 2 * R
            weights == qr[1].rule[1].weights.rows[1]
        IN  /\ DOMAIN qr[1].H = 0..(rows - 1)
            /\ \A k \in 0..(rows - 1) : qr[1].H[k] = MemberRow(k)
            /\ \A i \in 1..Len(weights) :
                  /\ weights[i].reads = IF qr[1].call = "GaussHermiteQR"
                                        THEN <<MemberRow(R - 1)>>
                                        ELSE <<MemberRow(2 * R - 2), MemberRow(2 * R - 1)>>

====
